---- MODULE Spec2Model ----
(***************************************************************************)
(* Resume / job-description matching pipeline.                             *)
(*                                                                         *)
(*   Spec      one run of resume_analyzer_flow (prefect_flow.py)           *)
(*   SpecPair  two runs of the flow on the same inputs that receive the    *)
(*             same results from the OCR engine, the scraper and the LLM   *)
(*             and differ only in which create_artifact calls fail         *)
(*   SpecApp   two sessions of streamlit_app.py handling the Analyze       *)
(*             button concurrently                                         *)
(*   SpecScrape  one call of scrape_linkedin_job_description               *)
(*             (scraping_utils.py)                                         *)
(*   SpecAnalyze  one call of analyze_resume_jd (gemini_analyzer.py)       *)
(*   SpecOcr   one call of extract_text_from_file (ocr_utils.py)           *)
(*   SpecKey   one call of sanitize_artifact_key (prefect_flow.py)         *)
(***************************************************************************)
EXTENDS Integers, Sequences, FiniteSets, TLC

(***************************************************************************)
(* Bounds of the model.                                                    *)
(***************************************************************************)
\* longest text an extractor returns
MaxTextLen == 1

\* seconds that pass while the requests are handled
MaxClock == 1

\* most parameters in the query of a URL
MaxQueryLen == 1

\* most digits the LLM writes after PERCENTAGE_MATCH:
MaxDigits == 4

\* most pages of a PDF
MaxPages == 2

\* longest run of the letter a at the start of a name or of a URL path
MaxRun == 50

\* most characters after that run
MaxTailLen == 2

(***************************************************************************)
(* Strings are sequences of tokens; " " is the only whitespace token.      *)
(***************************************************************************)
RECURSIVE LStrip(_)
LStrip(s) ==
    IF s = <<>> THEN s
    ELSE IF Head(s) = " " THEN LStrip(Tail(s)) ELSE s

RECURSIVE RStrip(_)
RStrip(s) ==
    IF s = <<>> THEN s
    ELSE IF s[Len(s)] = " " THEN RStrip(SubSeq(s, 1, Len(s) - 1)) ELSE s

\* str.strip()
Strip(s) == RStrip(LStrip(s))

\* str.startswith(prefix)
StartsWith(s, prefix) ==
    /\ Len(s) >= Len(prefix)
    /\ SubSeq(s, 1, Len(prefix)) = prefix

\* the value None, where a text is expected
None == <<"None">>

\* `not text or not text.strip()`
IsBlank(t) == t = None \/ t = <<>> \/ Strip(t) = <<>>

TextChars == {" ", "a"}

Texts == UNION {[1..n -> TextChars] : n \in 0..MaxTextLen}

(***************************************************************************)
(* Inputs of the flow.                                                     *)
(***************************************************************************)
\* jd_input values: URLs, near-URLs and file paths, some with surrounding
\* whitespace
JdInputs ==
    { <<"https://", "x">>,
      <<" ", "http://", "x", " ">>,
      <<"http", "x">>,
      <<"x">>,
      <<" ", "x">> }

\* the two runs of SpecPair; Spec runs the first only
Runs == {1, 2}

Steps == {"resume", "jd", "analyze"}

(***************************************************************************)
(* Task layer: the retry counts of the three @task decorators.             *)
(***************************************************************************)
\* as OcrRetries, had the decorator said retries=2
OcrRetriesTwo == 1 + 1

OcrRetries == 1

ScrapeRetries == 1

AnalyzeRetries == 1

\* retries of the task that runs a step
TaskRetries(step, isUrl) ==
    CASE step = "resume" -> OcrRetries
      [] step = "jd" -> IF isUrl THEN ScrapeRetries ELSE OcrRetries
      [] step = "analyze" -> AnalyzeRetries

\* the five-field dictionaries analyze_resume_jd returns
AnalysisDicts ==
    { [resume_summary |-> "rs", jd_summary |-> "js", matches |-> "met",
       misses |-> "miss", percentage |-> p] : p \in {0, 85} }

\* what one call of an extractor (extract_text_from_file,
\* scrape_linkedin_job_description) can do
ExtractResults ==
    {[kind |-> "raise"]} \cup {[kind |-> "text", text |-> t] : t \in Texts}

\* what one call of gemini_analyzer.analyze_resume_jd can do on valid input
AnalyzeResults ==
    {[kind |-> "raise"]} \cup {[kind |-> "dict", dict |-> d] : d \in AnalysisDicts}

VARIABLES
    jd_input,          \* flow argument
    jd_exists,         \* os.path.exists(jd_input)
    oracle,            \* step -> results of the collaborator's calls so far
    pc,                \* run -> position in the flow
    is_jd_url,         \* run -> the flow's is_jd_url
    resume_text,       \* run -> the flow's resume_text
    jd_text,           \* run -> the flow's jd_text
    task_state,        \* run -> step -> state of the task run
    attempts,          \* run -> step -> how each attempt of the task run ended
    calls,             \* run -> tasks the flow has invoked, in order
    artifact_calls,    \* run -> create_artifact calls made
    artifact_failures, \* run -> create_artifact calls that raised
    outcome            \* run -> the flow's return value

VARIABLES
    clock,             \* datetime.now(), in seconds
    fs,                \* files of TEMP_DIR: path -> request that wrote it last
    app,               \* request -> the script run's locals and position
    created,           \* request -> paths it has opened for writing
    foreign,           \* request -> what it did to a running request's file
    remove_failed      \* request -> an os.remove of its cleanup raised

flowVars ==
    << jd_input, jd_exists, oracle, pc, is_jd_url, resume_text, jd_text,
       task_state, attempts, calls, artifact_calls, artifact_failures, outcome >>

appVars == << clock, fs, app, created, foreign, remove_failed >>

VARIABLES
    url,               \* argument of scrape_linkedin_job_description
    driver_path_ok,    \* CHROMEDRIVER_PATH is set and exists
    scrape_pc,         \* position in scrape_linkedin_job_description
    target_url,        \* its target_url
    driver,            \* its driver
    attempt,           \* its innerHTML loop counter
    description_html,  \* its description_html
    exc,               \* the exception being handled
    pending,           \* what the function returns or raises after finally
    scrape_result,     \* what the call returned or raised
    navigated,         \* URLs passed to driver.get
    sessions_opened,   \* browser sessions opened by the call
    quit_calls         \* driver.quit calls

scrapeVars ==
    << url, driver_path_ok, scrape_pc, target_url, driver, attempt,
       description_html, exc, pending, scrape_result, navigated,
       sessions_opened, quit_calls >>

VARIABLES
    api_key,            \* config.GEMINI_API_KEY is set
    a_resume_text,      \* resume_text of analyze_resume_jd
    a_jd_text,          \* its jd_text
    analyze_pc,         \* position in analyze_resume_jd
    response,           \* what model.generate_content gave
    raw_text_response,  \* its raw_text_response
    analyze_result,     \* what the call returned or raised
    generate_calls      \* model.generate_content calls

analyzeVars ==
    << api_key, a_resume_text, a_jd_text, analyze_pc, response,
       raw_text_response, analyze_result, generate_calls >>

VARIABLES
    file_exists,          \* os.path.exists(file_path)
    file_ext,             \* os.path.splitext(file_path)[1]
    tesseract_installed,  \* the Tesseract executable is found
    ocr_pc,               \* position in extract_text_from_file
    num_pages,            \* num_pages of _perform_pdf_ocr
    page_num,             \* its page_num
    all_page_texts,       \* its all_page_texts
    page_log,             \* what happened on each page so far
    ocr_result            \* what the call returned or raised

ocrVars ==
    << file_exists, file_ext, tesseract_installed, ocr_pc, num_pages, page_num,
       all_page_texts, page_log, ocr_result >>

VARIABLES
    input_string,  \* the argument of sanitize_artifact_key
    key_pc,        \* position in sanitize_artifact_key
    artifact_key   \* what it returned

keyVars == << input_string, key_pc, artifact_key >>

nonFlowVars == << appVars, scrapeVars, analyzeVars, ocrVars, keyVars >>

nonAppVars == << flowVars, scrapeVars, analyzeVars, ocrVars, keyVars >>

nonScrapeVars == << flowVars, appVars, analyzeVars, ocrVars, keyVars >>

nonAnalyzeVars == << flowVars, appVars, scrapeVars, ocrVars, keyVars >>

nonOcrVars == << flowVars, appVars, scrapeVars, analyzeVars, keyVars >>

nonKeyVars == << flowVars, appVars, scrapeVars, analyzeVars, ocrVars >>

vars == << flowVars, appVars, scrapeVars, analyzeVars, ocrVars, keyVars >>

NoOutcome == [pending |-> TRUE]

\* as Failure, with a field of the analysis next to the error
FailureWithPercentage(msg) == [error |-> msg, percentage |-> 0]

Failure(msg) == [error |-> msg]

MsgInvalidJD == "Invalid Job Description input"

MsgResumeFailed == "Failed to process Resume"

MsgJDFailed == "Failed to process Job Description"

MsgResumeEmpty == "Resume text is empty after OCR"

MsgJDEmpty == "Job Description text is empty after processing"

MsgAnalysisFailed == "Analysis task failed"

FlowStart ==
    /\ oracle = [s \in Steps |-> <<>>]
    /\ pc = [r \in Runs |-> "Start"]
    /\ is_jd_url = [r \in Runs |-> FALSE]
    /\ resume_text = [r \in Runs |-> None]
    /\ jd_text = [r \in Runs |-> None]
    /\ task_state = [r \in Runs |-> [s \in Steps |-> "NotRun"]]
    /\ attempts = [r \in Runs |-> [s \in Steps |-> <<>>]]
    /\ calls = [r \in Runs |-> <<>>]
    /\ artifact_calls = [r \in Runs |-> 0]
    /\ artifact_failures = [r \in Runs |-> 0]
    /\ outcome = [r \in Runs |-> NoOutcome]

\* a flow is called with any of the JD inputs
FlowInit ==
    /\ jd_input \in JdInputs
    /\ jd_exists \in BOOLEAN
    /\ FlowStart

\* no flow is running
FlowIdle ==
    /\ jd_input = <<"x">>
    /\ jd_exists = FALSE
    /\ FlowStart

(***************************************************************************)
(* Pure parts of the flow and of the tasks.                                *)
(***************************************************************************)
\* is_jd_url of resume_analyzer_flow
IsJdUrl(s) ==
    \/ StartsWith(Strip(s), <<"http://">>)
    \/ StartsWith(Strip(s), <<"https://">>)

\* as JdSourceKind, without the os.path.exists check
JdSourceKindNoExistsCheck(s, exists) ==
    IF IsJdUrl(s) THEN "url" ELSE "file"

\* ClassifyJDSource: "url", "file", or "invalid" (the early return)
JdSourceKind(s, exists) ==
    IF IsJdUrl(s) THEN "url"
    ELSE IF ~exists THEN "invalid"
    ELSE "file"

\* what ocr_task / scrape_task return for the extractor's text
TaskText(raw) == IF IsBlank(raw) THEN <<>> ELSE raw

\* state of a task run after an attempt, which was attempt number n
TaskStateAfter(raised, n, retries) ==
    IF ~raised THEN "Completed"
    ELSE IF n <= retries THEN "AwaitingRetry"
    ELSE "Failed"

\* as ValidationError, without the check of the JD text
ValidationErrorResumeOnly(rt, jt) ==
    IF rt = None \/ Strip(rt) = <<>> THEN MsgResumeEmpty
    ELSE "ok"

\* as ValidationError, with the two checks in the other order
ValidationErrorJdFirst(rt, jt) ==
    IF jt = None \/ Strip(jt) = <<>> THEN MsgJDEmpty
    ELSE IF rt = None \/ Strip(rt) = <<>> THEN MsgResumeEmpty
    ELSE "ok"

\* Validate Extracted Text: the message of the early return, or "ok"
ValidationError(rt, jt) ==
    IF rt = None \/ Strip(rt) = <<>> THEN MsgResumeEmpty
    ELSE IF jt = None \/ Strip(jt) = <<>> THEN MsgJDEmpty
    ELSE "ok"

\* as AnalyzeTaskResult, had the create_artifact call not been wrapped in
\* its own try block
AnalyzeTaskResultArtifactRaises(res, artifactOk) ==
    IF res.kind = "dict" /\ artifactOk THEN res ELSE [kind |-> "raise"]

\* the result of one attempt of analyze_task, given what analyze_resume_jd
\* did and whether the create_artifact call of that attempt succeeded
AnalyzeTaskResult(res, artifactOk) ==
    IF res.kind = "dict" THEN res ELSE [kind |-> "raise"]

\* the task the flow runs for the JD
JdTask(isUrl) == IF isUrl THEN "scrape_task(jd_input)" ELSE "ocr_task(jd_input)"

(***************************************************************************)
(* The collaborators answer the k-th call of a step the same way in both   *)
(* runs: the first run to make the call draws the result.                  *)
(***************************************************************************)
Consult(step, k, results, res) ==
    /\ res \in results
    /\ IF Len(oracle[step]) >= k
       THEN res = oracle[step][k] /\ UNCHANGED oracle
       ELSE oracle' = [oracle EXCEPT ![step] = Append(@, res)]

\* n create_artifact calls in a try block whose except clause only logs;
\* a failure ends the block
Artifacts(r, n) ==
    \E made \in 1..n, failed \in 0..1 :
        /\ (made < n => failed = 1)
        /\ artifact_calls' = [artifact_calls EXCEPT ![r] = @ + made]
        /\ artifact_failures' = [artifact_failures EXCEPT ![r] = @ + failed]

NoArtifacts == UNCHANGED <<artifact_calls, artifact_failures>>

(***************************************************************************)
(* resume_analyzer_flow, one action per step; an action of a task step is  *)
(* one attempt of the task run and what the flow does with its result.     *)
(***************************************************************************)
\* as AfterResume, had the except clause logged without returning
AfterResumeNoReturn(st) ==
    CASE st = "Completed" -> "ExtractJD"
      [] st = "AwaitingRetry" -> "ExtractResume"
      [] st = "Failed" -> "ExtractJD"

\* where the flow goes once the task run of a step is in state st: on to the
\* next step, or to its except clause, which returns
AfterResume(st) ==
    CASE st = "Completed" -> "ExtractJD"
      [] st = "AwaitingRetry" -> "ExtractResume"
      [] st = "Failed" -> "Done"

\* as AfterJD, had the except clause logged without returning
AfterJDNoReturn(st) ==
    CASE st = "Completed" -> "ValidateTexts"
      [] st = "AwaitingRetry" -> "ExtractJD"
      [] st = "Failed" -> "ValidateTexts"

AfterJD(st) ==
    CASE st = "Completed" -> "ValidateTexts"
      [] st = "AwaitingRetry" -> "ExtractJD"
      [] st = "Failed" -> "Done"

AfterAnalyze(st) ==
    CASE st = "Completed" -> "Done"
      [] st = "AwaitingRetry" -> "Analyze"
      [] st = "Failed" -> "Done"

AttemptMark(res) == IF res.kind = "raise" THEN "raised" ELSE "returned"

ClassifyJDSource(r) ==
    /\ pc[r] = "Start"
    /\ is_jd_url' = [is_jd_url EXCEPT ![r] = IsJdUrl(jd_input)]
    /\ IF JdSourceKind(jd_input, jd_exists) = "invalid"
       THEN /\ outcome' = [outcome EXCEPT ![r] = Failure(MsgInvalidJD)]
            /\ pc' = [pc EXCEPT ![r] = "Done"]
            /\ NoArtifacts
       ELSE /\ Artifacts(r, 1)
            /\ pc' = [pc EXCEPT ![r] = "ExtractResume"]
            /\ UNCHANGED outcome
    /\ UNCHANGED <<jd_input, jd_exists, oracle, resume_text, jd_text,
                   task_state, attempts, calls>>
    /\ UNCHANGED nonFlowVars

ExtractResume(r) ==
    /\ pc[r] = "ExtractResume"
    /\ LET n == Len(attempts[r]["resume"]) + 1 IN
       \E res \in ExtractResults :
        /\ Consult("resume", n, ExtractResults, res)
        /\ attempts' = [attempts EXCEPT ![r]["resume"] = Append(@, AttemptMark(res))]
        /\ calls' = [calls EXCEPT ![r] =
                        IF n = 1 THEN Append(@, "ocr_task(resume_path)") ELSE @]
        /\ LET st == TaskStateAfter(res.kind = "raise", n,
                                    TaskRetries("resume", is_jd_url[r])) IN
            /\ task_state' = [task_state EXCEPT ![r]["resume"] = st]
            /\ pc' = [pc EXCEPT ![r] = AfterResume(st)]
            /\ CASE st = "Completed" ->
                      /\ resume_text' = [resume_text EXCEPT ![r] = TaskText(res.text)]
                      /\ IF ~IsBlank(TaskText(res.text))
                         THEN Artifacts(r, 1) ELSE NoArtifacts
                      /\ UNCHANGED outcome
                 [] st = "AwaitingRetry" ->
                      /\ NoArtifacts
                      /\ UNCHANGED <<resume_text, outcome>>
                 [] st = "Failed" ->
                      /\ outcome' = [outcome EXCEPT ![r] = Failure(MsgResumeFailed)]
                      /\ NoArtifacts
                      /\ UNCHANGED resume_text
    /\ UNCHANGED <<jd_input, jd_exists, is_jd_url, jd_text>>
    /\ UNCHANGED nonFlowVars

ExtractJD(r) ==
    /\ pc[r] = "ExtractJD"
    /\ LET n == Len(attempts[r]["jd"]) + 1 IN
       \E res \in ExtractResults :
        /\ Consult("jd", n, ExtractResults, res)
        /\ attempts' = [attempts EXCEPT ![r]["jd"] = Append(@, AttemptMark(res))]
        /\ calls' = [calls EXCEPT ![r] =
                        IF n = 1 THEN Append(@, JdTask(is_jd_url[r])) ELSE @]
        /\ LET st == TaskStateAfter(res.kind = "raise", n,
                                    TaskRetries("jd", is_jd_url[r])) IN
            /\ task_state' = [task_state EXCEPT ![r]["jd"] = st]
            /\ pc' = [pc EXCEPT ![r] = AfterJD(st)]
            /\ CASE st = "Completed" ->
                      /\ jd_text' = [jd_text EXCEPT ![r] = TaskText(res.text)]
                      /\ IF ~IsBlank(TaskText(res.text))
                         THEN Artifacts(r, 1) ELSE NoArtifacts
                      /\ UNCHANGED outcome
                 [] st = "AwaitingRetry" ->
                      /\ NoArtifacts
                      /\ UNCHANGED <<jd_text, outcome>>
                 [] st = "Failed" ->
                      /\ outcome' = [outcome EXCEPT ![r] = Failure(MsgJDFailed)]
                      /\ NoArtifacts
                      /\ UNCHANGED jd_text
    /\ UNCHANGED <<jd_input, jd_exists, is_jd_url, resume_text>>
    /\ UNCHANGED nonFlowVars

ValidateTexts(r) ==
    /\ pc[r] = "ValidateTexts"
    /\ LET err == ValidationError(resume_text[r], jd_text[r]) IN
       IF err = "ok"
       THEN /\ pc' = [pc EXCEPT ![r] = "Analyze"]
            /\ UNCHANGED outcome
       ELSE /\ outcome' = [outcome EXCEPT ![r] = Failure(err)]
            /\ pc' = [pc EXCEPT ![r] = "Done"]
    /\ UNCHANGED <<jd_input, jd_exists, oracle, is_jd_url, resume_text, jd_text,
                   task_state, attempts, calls, artifact_calls, artifact_failures>>
    /\ UNCHANGED nonFlowVars

Analyze(r) ==
    /\ pc[r] = "Analyze"
    /\ LET n == Len(attempts[r]["analyze"]) + 1 IN
       \E res \in AnalyzeResults, artifactOk \in BOOLEAN :
        \* analyze_resume_jd raises ValueError on blank input, before any call
        /\ IF IsBlank(resume_text[r]) \/ IsBlank(jd_text[r])
           THEN res = [kind |-> "raise"] /\ UNCHANGED oracle
           ELSE Consult("analyze", n, AnalyzeResults, res)
        /\ calls' = [calls EXCEPT ![r] =
                        IF n = 1 THEN Append(@, "analyze_task") ELSE @]
        /\ LET tres == AnalyzeTaskResult(res, artifactOk)
               st == TaskStateAfter(tres.kind = "raise", n,
                                    TaskRetries("analyze", is_jd_url[r]))
               \* gemini-raw-response or gemini-error-info, then on success
               \* analysis-summary and match-percentage in one try block
               inTask == IF artifactOk THEN 0 ELSE 1
           IN
            /\ attempts' = [attempts EXCEPT ![r]["analyze"] = Append(@, AttemptMark(tres))]
            /\ task_state' = [task_state EXCEPT ![r]["analyze"] = st]
            /\ pc' = [pc EXCEPT ![r] = AfterAnalyze(st)]
            /\ CASE st = "Completed" ->
                      /\ \E made \in 1..2, failed \in 0..1 :
                            /\ (made < 2 => failed = 1)
                            /\ artifact_calls' =
                                 [artifact_calls EXCEPT ![r] = @ + 1 + made]
                            /\ artifact_failures' =
                                 [artifact_failures EXCEPT ![r] = @ + inTask + failed]
                      /\ outcome' = [outcome EXCEPT ![r] = tres.dict]
                 [] st = "AwaitingRetry" ->
                      /\ artifact_calls' = [artifact_calls EXCEPT ![r] = @ + 1]
                      /\ artifact_failures' =
                           [artifact_failures EXCEPT ![r] = @ + inTask]
                      /\ UNCHANGED outcome
                 [] st = "Failed" ->
                      /\ artifact_calls' = [artifact_calls EXCEPT ![r] = @ + 1]
                      /\ artifact_failures' =
                           [artifact_failures EXCEPT ![r] = @ + inTask]
                      /\ outcome' = [outcome EXCEPT ![r] = Failure(MsgAnalysisFailed)]
    /\ UNCHANGED <<jd_input, jd_exists, is_jd_url, resume_text, jd_text>>
    /\ UNCHANGED nonFlowVars

(***************************************************************************)
(* streamlit_app.py: the handler of the Analyze button.  Every session     *)
(* runs the script in its own thread; all share TEMP_DIR and the clock.    *)
(***************************************************************************)
\* sessions that press the button
Requests == {1, 2}

\* uploaded_file.name
FileNames == { <<"b">>, <<"a", " ">>, <<"a", "_">> }

\* c.isalnum() or c in ("-", "_", ".")
KeptChars == {"a", "b", "-", "_", "."}

\* safe_filename of save_uploaded_file
SafeFilename(name) ==
    [i \in 1..Len(name) |-> IF name[i] \in KeptChars THEN name[i] ELSE "_"]

\* file_path of save_uploaded_file: TEMP_DIR/<timestamp>_<safe_filename>
TempPath(timestamp, name) == <<timestamp>> \o SafeFilename(name)

\* resume_path_temporary = None
NoPath == <<>>

\* what a call of save_uploaded_file can do: return, raise before the file
\* is created (makedirs, open), raise after open() has created it (getbuffer,
\* write)
SaveResults == {"saved", "open_raises", "write_raises"}

\* the files after save_uploaded_file has opened path for writing
Written(files, path, q) ==
    [p \in DOMAIN files \cup {path} |-> IF p = path THEN q ELSE files[p]]

\* the files after cleanup_temp_file(path)
CleanupTempFile(files, path, removeOk) ==
    IF path # NoPath /\ path \in DOMAIN files /\ removeOk
    THEN [p \in DOMAIN files \ {path} |-> files[p]]
    ELSE files

Running(q) == app[q].pc \notin {"Idle", "Done"}

\* path holds a file of another request that is still running
ForeignFile(files, path, q) ==
    /\ path # NoPath
    /\ path \in DOMAIN files
    /\ files[path] # q
    /\ Running(files[path])

AppInit ==
    /\ clock = 0
    /\ fs = << >>
    /\ app = [q \in Requests |->
                [pc |-> "Idle", resume_file |-> <<"b">>, jd_flag |-> "url",
                 jd_file |-> <<"b">>, resume_path_temporary |-> NoPath,
                 jd_path_temporary |-> NoPath, analysis_result |-> "none"]]
    /\ created = [q \in Requests |-> {}]
    /\ foreign = [q \in Requests |-> {}]
    /\ remove_failed = [q \in Requests |-> FALSE]

\* a second passes
Tick ==
    /\ clock < MaxClock
    /\ clock' = clock + 1
    /\ UNCHANGED <<fs, app, created, foreign, remove_failed>>
    /\ UNCHANGED nonAppVars

\* the user has uploaded a resume and a JD file or URL and presses the button
AnalyzeButton(q) ==
    /\ app[q].pc = "Idle"
    /\ \E rf \in FileNames, flag \in {"file", "url"}, jf \in FileNames :
          app' = [app EXCEPT ![q].pc = "SaveResume",
                             ![q].resume_file = rf,
                             ![q].jd_flag = flag,
                             ![q].jd_file = IF flag = "file" THEN jf ELSE <<"b">>]
    /\ UNCHANGED <<clock, fs, created, foreign, remove_failed>>
    /\ UNCHANGED nonAppVars

\* resume_path_temporary = save_uploaded_file(resume_file)
SaveResume(q) ==
    /\ app[q].pc = "SaveResume"
    /\ LET path == TempPath(clock, app[q].resume_file) IN
       \E how \in SaveResults :
        /\ IF how = "open_raises"
           THEN UNCHANGED <<fs, created, foreign>>
           ELSE /\ fs' = Written(fs, path, q)
                /\ created' = [created EXCEPT ![q] = @ \cup {path}]
                /\ foreign' = [foreign EXCEPT ![q] =
                                 IF ForeignFile(fs, path, q)
                                 THEN @ \cup {"overwrite"} ELSE @]
        /\ app' = IF how = "saved"
                  THEN [app EXCEPT ![q].pc = "SaveJD",
                                   ![q].resume_path_temporary = path]
                  ELSE [app EXCEPT ![q].pc = "Finally"]
    /\ UNCHANGED <<clock, remove_failed>>
    /\ UNCHANGED nonAppVars

\* jd_path_temporary = save_uploaded_file(jd_file), or the URL is used
SaveJD(q) ==
    /\ app[q].pc = "SaveJD"
    /\ IF app[q].jd_flag = "url"
       THEN /\ app' = [app EXCEPT ![q].pc = "RunFlow"]
            /\ UNCHANGED <<fs, created, foreign>>
       ELSE LET path == TempPath(clock, app[q].jd_file) IN
            \E how \in SaveResults :
             /\ IF how = "open_raises"
                THEN UNCHANGED <<fs, created, foreign>>
                ELSE /\ fs' = Written(fs, path, q)
                     /\ created' = [created EXCEPT ![q] = @ \cup {path}]
                     /\ foreign' = [foreign EXCEPT ![q] =
                                      IF ForeignFile(fs, path, q)
                                      THEN @ \cup {"overwrite"} ELSE @]
             /\ app' = IF how = "saved"
                       THEN [app EXCEPT ![q].pc = "RunFlow",
                                        ![q].jd_path_temporary = path]
                       ELSE [app EXCEPT ![q].pc = "Finally"]
    /\ UNCHANGED <<clock, remove_failed>>
    /\ UNCHANGED nonAppVars

\* analysis_result = asyncio.run(resume_analyzer_flow(...)): the flow reads
\* the resume copy and, in file mode, the JD copy
RunFlow(q) ==
    /\ app[q].pc = "RunFlow"
    /\ LET rp == app[q].resume_path_temporary
           jp == app[q].jd_path_temporary
           missing == rp \notin DOMAIN fs \/ (jp # NoPath /\ jp \notin DOMAIN fs)
       IN
        /\ \E res \in {"Success", "Failure", "exception"} :
              /\ missing => res = "Failure"
              /\ app' = [app EXCEPT ![q].pc = "Finally",
                                    ![q].analysis_result = res]
        /\ foreign' = [foreign EXCEPT ![q] =
                         IF ForeignFile(fs, rp, q) \/ ForeignFile(fs, jp, q)
                         THEN @ \cup {"read"} ELSE @]
    /\ UNCHANGED <<clock, fs, created, remove_failed>>
    /\ UNCHANGED nonAppVars

\* the finally clause: cleanup_temp_file of the resume copy, then of the JD
\* copy; an os.remove that raises is reported and swallowed
Finally(q) ==
    /\ app[q].pc = "Finally"
    /\ LET rp == app[q].resume_path_temporary
           jp == app[q].jd_path_temporary
       IN
       \E ok1, ok2 \in BOOLEAN :
        LET fs1 == CleanupTempFile(fs, rp, ok1)
            fs2 == CleanupTempFile(fs1, jp, ok2)
        IN
        /\ fs' = fs2
        /\ remove_failed' = [remove_failed EXCEPT ![q] =
                               \/ (rp # NoPath /\ rp \in DOMAIN fs /\ ~ok1)
                               \/ (jp # NoPath /\ jp \in DOMAIN fs1 /\ ~ok2)]
        /\ foreign' = [foreign EXCEPT ![q] =
                         IF \/ (ForeignFile(fs, rp, q) /\ rp \notin DOMAIN fs1)
                            \/ (ForeignFile(fs1, jp, q) /\ jp \notin DOMAIN fs2)
                         THEN @ \cup {"delete"} ELSE @]
    /\ app' = [app EXCEPT ![q].pc = "Done"]
    /\ UNCHANGED <<clock, created>>
    /\ UNCHANGED nonAppVars

(***************************************************************************)
(* scraping_utils.py: scrape_linkedin_job_description.                     *)
(***************************************************************************)
\* netloc of the URL, "linkedin.com" being one token
Netlocs ==
    { <<"www.", "linkedin.com">>,
      <<"linkedin.com", ".evil.com">>,
      <<"evil.com">> }

UrlPaths ==
    { <<"/", "jobs", "/", "search", "/">>,
      <<"/", "jobs", "/", "search">>,
      <<"/", "jobs", "/", "view", "/", "123", "/">>,
      <<"/", "feed", "/">> }

QueryParams == [key : {"currentJobId", "keywords"}, value : {"", "42"}]

Queries == UNION {[1..n -> QueryParams] : n \in 0..MaxQueryLen}

Urls == [netloc : Netlocs, path : UrlPaths, query : Queries]

NoUrl == [netloc |-> <<>>, path |-> <<>>, query |-> <<>>]

\* `sub in s` for a one-token sub
Contains(s, sub) == \E i \in 1..Len(s) : s[i] = sub

\* parse_qs(query).get(key, []): the non-blank values of key, in order
RECURSIVE QueryValues(_, _)
QueryValues(query, key) ==
    IF query = <<>> THEN <<>>
    ELSE LET rest == QueryValues(Tail(query), key) IN
         IF Head(query).key = key /\ Head(query).value # ""
         THEN <<Head(query).value>> \o rest
         ELSE rest

\* https://www.linkedin.com/jobs/view/{job_id}/
ViewUrl(job_id) ==
    [netloc |-> <<"www.", "linkedin.com">>,
     path |-> <<"/", "jobs", "/", "view", "/", job_id, "/">>,
     query |-> <<>>]

InvalidUrl == [kind |-> "ValueError"]

\* as TargetUrl, with a search URL that has no currentJobId used as it is
TargetUrlNoIdCheck(u) ==
    IF ~Contains(u.netloc, "linkedin.com") THEN InvalidUrl
    ELSE IF StartsWith(u.path, <<"/", "jobs", "/", "search", "/">>)
         THEN LET job_id_list == QueryValues(u.query, "currentJobId") IN
              IF job_id_list # <<>>
              THEN [kind |-> "ok", url |-> ViewUrl(job_id_list[1])]
              ELSE [kind |-> "ok", url |-> u]
    ELSE IF ~StartsWith(u.path, <<"/", "jobs", "/", "view", "/">>) THEN InvalidUrl
    ELSE [kind |-> "ok", url |-> u]

\* the URL validation: target_url, or the ValueError
TargetUrl(u) ==
    IF ~Contains(u.netloc, "linkedin.com") THEN InvalidUrl
    ELSE IF StartsWith(u.path, <<"/", "jobs", "/", "search", "/">>)
         THEN LET job_id_list == QueryValues(u.query, "currentJobId") IN
              IF job_id_list # <<>>
              THEN [kind |-> "ok", url |-> ViewUrl(job_id_list[1])]
              ELSE InvalidUrl
    ELSE IF ~StartsWith(u.path, <<"/", "jobs", "/", "view", "/">>) THEN InvalidUrl
    ELSE [kind |-> "ok", url |-> u]

\* range(3) of the innerHTML loop
InnerHtmlAttempts == 3

NoDriver == "None"

NoExc == "none"

NothingPending == [kind |-> "none"]

Raise(e) == [kind |-> "raise", exc |-> e]

Return(from) == [kind |-> "return", from |-> from]

\* as QuitsInFinally, had driver.quit() been the last statement of the try
\* block
QuitsOnReturnOnly(drv, pend) == drv # NoDriver /\ pend.kind = "return"

\* the finally clause: `if driver: driver.quit()`
QuitsInFinally(drv, pend) == drv # NoDriver

ScrapeStart ==
    /\ driver_path_ok \in BOOLEAN
    /\ scrape_pc = "Start"
    /\ target_url = NoUrl
    /\ driver = NoDriver
    /\ attempt = 0
    /\ description_html = ""
    /\ exc = NoExc
    /\ pending = NothingPending
    /\ scrape_result = NothingPending
    /\ navigated = <<>>
    /\ sessions_opened = 0
    /\ quit_calls = 0

\* the function is called with any of the URLs
ScrapeInit == url \in Urls /\ ScrapeStart

\* no call of the function
ScrapeIdle ==
    /\ url = NoUrl
    /\ driver_path_ok = FALSE
    /\ scrape_pc = "Exit"
    /\ target_url = NoUrl
    /\ driver = NoDriver
    /\ attempt = 0
    /\ description_html = ""
    /\ exc = NoExc
    /\ pending = NothingPending
    /\ scrape_result = NothingPending
    /\ navigated = <<>>
    /\ sessions_opened = 0
    /\ quit_calls = 0

\* the URL checks before the try block that owns the driver
ValidateUrl ==
    /\ scrape_pc = "Start"
    /\ LET t == TargetUrl(url) IN
       IF t.kind = "ValueError"
       THEN /\ scrape_result' = Raise("ValueError")
            /\ scrape_pc' = "Exit"
            /\ UNCHANGED target_url
       ELSE /\ target_url' = t.url
            /\ scrape_pc' = "StartDriver"
            /\ UNCHANGED scrape_result
    /\ UNCHANGED <<url, driver_path_ok, driver, attempt, description_html, exc,
                   pending, navigated, sessions_opened, quit_calls>>
    /\ UNCHANGED nonScrapeVars

\* the CHROMEDRIVER_PATH check, webdriver.Chrome(...), maximize_window()
StartDriver ==
    /\ scrape_pc = "StartDriver"
    /\ IF ~driver_path_ok
       THEN /\ exc' = "ScrapingError"
            /\ scrape_pc' = "Handler"
            /\ UNCHANGED <<driver, sessions_opened>>
       ELSE \E how \in {"started", "chrome_raises", "maximize_raises"} :
             /\ IF how = "chrome_raises"
                THEN UNCHANGED <<driver, sessions_opened>>
                ELSE /\ driver' = "session"
                     /\ sessions_opened' = sessions_opened + 1
             /\ IF how = "started"
                THEN scrape_pc' = "Navigate" /\ UNCHANGED exc
                ELSE scrape_pc' = "Handler" /\ exc' = "WebDriverException"
    /\ UNCHANGED <<url, driver_path_ok, target_url, attempt, description_html,
                   pending, scrape_result, navigated, quit_calls>>
    /\ UNCHANGED nonScrapeVars

\* driver.get(target_url), then the overlays and the show-more button, whose
\* failures are swallowed
Navigate ==
    /\ scrape_pc = "Navigate"
    /\ navigated' = Append(navigated, target_url)
    /\ \E how \in {"loaded", "TimeoutException", "WebDriverException"} :
          IF how = "loaded"
          THEN scrape_pc' = "WaitContent" /\ UNCHANGED exc
          ELSE scrape_pc' = "Handler" /\ exc' = how
    /\ UNCHANGED <<url, driver_path_ok, target_url, driver, attempt,
                   description_html, pending, scrape_result, sessions_opened,
                   quit_calls>>
    /\ UNCHANGED nonScrapeVars

\* content_div = wait.until(visibility_of_element_located(...))
WaitContent ==
    /\ scrape_pc = "WaitContent"
    /\ \E how \in {"visible", "TimeoutException"} :
          IF how = "visible"
          THEN scrape_pc' = "InnerHtml" /\ UNCHANGED exc
          ELSE scrape_pc' = "Handler" /\ exc' = how
    /\ UNCHANGED <<url, driver_path_ok, target_url, driver, attempt,
                   description_html, pending, scrape_result, navigated,
                   sessions_opened, quit_calls>>
    /\ UNCHANGED nonScrapeVars

\* one pass of the innerHTML loop
InnerHtml ==
    /\ scrape_pc = "InnerHtml"
    /\ \E how \in {"markup", "empty", "stale", "stale_then_timeout", "other"} :
          CASE how = "markup" ->
                 /\ description_html' = "markup"
                 /\ scrape_pc' = "Extract"
                 /\ UNCHANGED <<attempt, exc>>
            [] how \in {"empty", "stale"} ->
                 /\ attempt' = attempt + 1
                 /\ scrape_pc' = IF attempt + 1 < InnerHtmlAttempts
                                 THEN "InnerHtml" ELSE "Extract"
                 /\ UNCHANGED <<description_html, exc>>
            [] how = "stale_then_timeout" ->
                 /\ exc' = "TimeoutException"
                 /\ scrape_pc' = "Handler"
                 /\ UNCHANGED <<description_html, attempt>>
            [] how = "other" ->
                 /\ exc' = "ScrapingError"
                 /\ scrape_pc' = "Handler"
                 /\ UNCHANGED <<description_html, attempt>>
    /\ UNCHANGED <<url, driver_path_ok, target_url, driver, pending,
                   scrape_result, navigated, sessions_opened, quit_calls>>
    /\ UNCHANGED nonScrapeVars

\* the cleaned markup, or the content_div.text fallback
Extract ==
    /\ scrape_pc = "Extract"
    /\ IF description_html # ""
       THEN /\ pending' = Return("innerHTML")
            /\ scrape_pc' = "Finally"
            /\ UNCHANGED exc
       ELSE \E how \in {"text", "empty_text", "text_raises"} :
              IF how = "text"
              THEN /\ pending' = Return("text")
                   /\ scrape_pc' = "Finally"
                   /\ UNCHANGED exc
              ELSE /\ exc' = "ScrapingError"
                   /\ scrape_pc' = "Handler"
                   /\ UNCHANGED pending
    /\ UNCHANGED <<url, driver_path_ok, target_url, driver, attempt,
                   description_html, scrape_result, navigated, sessions_opened,
                   quit_calls>>
    /\ UNCHANGED nonScrapeVars

\* the two except clauses: a screenshot if there is a driver (its failure is
\* swallowed), then raise ScrapingError
Handler ==
    /\ scrape_pc = "Handler"
    /\ pending' = Raise("ScrapingError")
    /\ exc' = NoExc
    /\ scrape_pc' = "Finally"
    /\ UNCHANGED <<url, driver_path_ok, target_url, driver, attempt,
                   description_html, scrape_result, navigated, sessions_opened,
                   quit_calls>>
    /\ UNCHANGED nonScrapeVars

\* the finally clause, and the function returns or raises
ScrapeFinally ==
    /\ scrape_pc = "Finally"
    /\ IF QuitsInFinally(driver, pending)
       THEN /\ quit_calls' = quit_calls + 1
            /\ \E quitOk \in BOOLEAN :
                  scrape_result' =
                     IF quitOk THEN pending ELSE Raise("WebDriverException")
       ELSE /\ scrape_result' = pending
            /\ UNCHANGED quit_calls
    /\ scrape_pc' = "Exit"
    /\ UNCHANGED <<url, driver_path_ok, target_url, driver, attempt,
                   description_html, exc, pending, navigated, sessions_opened>>
    /\ UNCHANGED nonScrapeVars

(***************************************************************************)
(* gemini_analyzer.py: configure_gemini, analyze_resume_jd.                *)
(***************************************************************************)
\* the five markers of the prompt, in the order the prompt asks for
Markers ==
    << "RESUME_SUMMARY:", "JD_SUMMARY:", "REQUIREMENTS_MET:",
       "REQUIREMENTS_MISSING:", "PERCENTAGE_MATCH:" >>

\* the same markers as the LLM may write them in lower case
LowerMarkers ==
    << "resume_summary:", "jd_summary:", "requirements_met:",
       "requirements_missing:", "percentage_match:" >>

\* re.IGNORECASE: a token and its lower-case form match the same pattern
Fold(tok) ==
    IF \E k \in 1..Len(Markers) : LowerMarkers[k] = tok
    THEN Markers[CHOOSE k \in 1..Len(Markers) : LowerMarkers[k] = tok]
    ELSE tok

Digits == {"0", "1"}

\* \d
IsDigit(tok) == tok \in {"0", "1", "2", "3", "4", "5", "6", "7", "8", "9"}

DigitValue(tok) ==
    CASE tok = "0" -> 0 [] tok = "1" -> 1 [] tok = "2" -> 2 [] tok = "3" -> 3
      [] tok = "4" -> 4 [] tok = "5" -> 5 [] tok = "6" -> 6 [] tok = "7" -> 7
      [] tok = "8" -> 8 [] tok = "9" -> 9

\* int(s) of a string of digits
RECURSIVE ToInt(_)
ToInt(s) ==
    IF s = <<>> THEN 0
    ELSE 10 * ToInt(SubSeq(s, 1, Len(s) - 1)) + DigitValue(s[Len(s)])

\* what the LLM writes under the k-th text marker
SectionBody(k) ==
    CASE k = 1 -> <<" ", "r", " ", "r", " ">>
      [] k = 2 -> <<"j">>
      [] k = 3 -> <<" ", "m">>
      [] k = 4 -> <<"x", " ">>

\* what the LLM writes under PERCENTAGE_MATCH:
PercentageBodies ==
    { lead \o ds : lead \in { <<>>, <<" ">>, <<"-">> },
                   ds \in UNION {[1..n -> Digits] : n \in 0..MaxDigits} }

\* the markers of a response: any of the five, each at most once, in any order
MarkerLayouts ==
    { l \in UNION {[1..n -> 1..Len(Markers)] : n \in 0..Len(Markers)} :
        \A i, j \in 1..Len(l) : i # j => l[i] # l[j] }

\* the text of a response: a preamble, then each marker with its body
RECURSIVE Sections(_, _, _)
Sections(l, lower, pct) ==
    IF l = <<>> THEN <<>>
    ELSE LET k == Head(l)
             marker == IF lower THEN LowerMarkers[k] ELSE Markers[k]
             body == IF k = Len(Markers) THEN pct ELSE SectionBody(k)
         IN  <<marker>> \o body \o Sections(Tail(l), lower, pct)

ResponseText(l, lower, pct) == <<"p", " ">> \o Sections(l, lower, pct)

\* response.text of the responses of the LLM
ResponseTexts ==
    { ResponseText(l, lower, pct) :
        l \in MarkerLayouts, lower \in BOOLEAN, pct \in PercentageBodies }

\* the first position at or after `from` where the marker is, or 0
RECURSIVE IndexFrom(_, _, _)
IndexFrom(text, marker, from) ==
    IF from > Len(text) THEN 0
    ELSE IF Fold(text[from]) = marker THEN from
    ELSE IndexFrom(text, marker, from + 1)

NoMatch == [matched |-> FALSE, group |-> <<>>]

\* re.search(r"<a>(.*?)<b>", text, re.DOTALL | re.IGNORECASE): the leftmost
\* a that has a b after it, and the text up to the first such b
SearchBetween(text, a, b) ==
    LET i == IndexFrom(text, a, 1)
        j == IF i = 0 THEN 0 ELSE IndexFrom(text, b, i + 1)
    IN  IF j = 0 THEN NoMatch
        ELSE [matched |-> TRUE, group |-> SubSeq(text, i + 1, j - 1)]

\* \s*: the first position at or after `from` that holds no whitespace
RECURSIVE SkipSpace(_, _)
SkipSpace(text, from) ==
    IF from <= Len(text) /\ text[from] = " "
    THEN SkipSpace(text, from + 1)
    ELSE from

\* \d{1,3}: the digits at `from`, three of them at most
RECURSIVE TakeDigits(_, _, _)
TakeDigits(text, from, most) ==
    IF most = 0 \/ from > Len(text) \/ ~IsDigit(text[from]) THEN <<>>
    ELSE <<text[from]>> \o TakeDigits(text, from + 1, most - 1)

\* \d{1,3}
MostDigits == 3

\* re.search(r"PERCENTAGE_MATCH:\s*(\d{1,3})", text, re.IGNORECASE): the
\* leftmost marker that has whitespace and then a digit after it
RECURSIVE SearchPercentage(_, _)
SearchPercentage(text, from) ==
    LET i == IndexFrom(text, Markers[5], from) IN
    IF i = 0 THEN NoMatch
    ELSE LET ds == TakeDigits(text, SkipSpace(text, i + 1), MostDigits) IN
         IF ds # <<>> THEN [matched |-> TRUE, group |-> ds]
         ELSE SearchPercentage(text, i + 1)

ResumePlaceholder == <<"Could not parse Resume Summary.">>

JdPlaceholder == <<"Could not parse Job Description Summary.">>

MetPlaceholder == <<"Could not parse Requirements Met.">>

MissingPlaceholder == <<"Could not parse Requirements Missing.">>

\* as GroupOr, without the strip()
GroupOrNoStrip(match, placeholder) ==
    IF match.matched THEN match.group ELSE placeholder

\* match.group(1).strip() if match else placeholder
GroupOr(match, placeholder) ==
    IF match.matched THEN Strip(match.group) ELSE placeholder

\* as Percentage, without the range check
PercentageNoRangeCheck(text) ==
    LET percentage_match == SearchPercentage(text, 1) IN
    IF percentage_match.matched THEN ToInt(percentage_match.group) ELSE 0

\* analysis_result["percentage"]
Percentage(text) ==
    LET percentage_match == SearchPercentage(text, 1)
        percentage == IF percentage_match.matched
                      THEN ToInt(percentage_match.group) ELSE 0
    IN  IF 0 <= percentage /\ percentage <= 100 THEN percentage ELSE 0

\* analysis_result of a response text
ParseResponse(text) ==
    [resume_summary |->
        GroupOr(SearchBetween(text, Markers[1], Markers[2]), ResumePlaceholder),
     jd_summary |->
        GroupOr(SearchBetween(text, Markers[2], Markers[3]), JdPlaceholder),
     matches |->
        GroupOr(SearchBetween(text, Markers[3], Markers[4]), MetPlaceholder),
     misses |->
        GroupOr(SearchBetween(text, Markers[4], Markers[5]), MissingPlaceholder),
     percentage |-> Percentage(text)]

\* the texts analyze_resume_jd is called with
AnalyzerTexts == { <<>>, <<" ">>, <<" ", "a">> }

NoResponse == [kind |-> "none"]

AnalyzeStart ==
    /\ analyze_pc = "Start"
    /\ response = NoResponse
    /\ raw_text_response = <<>>
    /\ analyze_result = NothingPending
    /\ generate_calls = 0

\* the function is called with any two texts, the API key set or not
AnalyzeInit ==
    /\ api_key \in BOOLEAN
    /\ a_resume_text \in AnalyzerTexts
    /\ a_jd_text \in AnalyzerTexts
    /\ AnalyzeStart

\* no call of the function
AnalyzeIdle ==
    /\ api_key = FALSE
    /\ a_resume_text = <<>>
    /\ a_jd_text = <<>>
    /\ analyze_pc = "Exit"
    /\ response = NoResponse
    /\ raw_text_response = <<>>
    /\ analyze_result = NothingPending
    /\ generate_calls = 0

\* return analysis_result, raw_text_response
AnalyzeReturn(result, raw) == [kind |-> "return", value |-> result, raw |-> raw]

\* as ParseOutcome, had match.group(1) been called without the `if match`
\* guard: the AttributeError is wrapped in GeminiError
ParseOutcomeUnguarded(text) ==
    IF /\ \A k \in 1..4 : SearchBetween(text, Markers[k], Markers[k + 1]).matched
       /\ SearchPercentage(text, 1).matched
    THEN AnalyzeReturn(ParseResponse(text), text)
    ELSE Raise("GeminiError")

\* the parsing of the response text, and the return
ParseOutcome(text) == AnalyzeReturn(ParseResponse(text), text)

\* configure_gemini(): the API key check, then genai.configure
ConfigureGemini ==
    /\ analyze_pc = "Start"
    /\ IF ~api_key
       THEN /\ analyze_result' = Raise("GeminiError")
            /\ analyze_pc' = "Exit"
       ELSE \E configured \in BOOLEAN :
              IF configured
              THEN analyze_pc' = "CheckInputs" /\ UNCHANGED analyze_result
              ELSE /\ analyze_result' = Raise("GeminiError")
                   /\ analyze_pc' = "Exit"
    /\ UNCHANGED <<api_key, a_resume_text, a_jd_text, response,
                   raw_text_response, generate_calls>>
    /\ UNCHANGED nonAnalyzeVars

\* the two empty-text checks
CheckInputs ==
    /\ analyze_pc = "CheckInputs"
    /\ IF IsBlank(a_resume_text) \/ IsBlank(a_jd_text)
       THEN /\ analyze_result' = Raise("ValueError")
            /\ analyze_pc' = "Exit"
       ELSE /\ analyze_pc' = "Generate"
            /\ UNCHANGED analyze_result
    /\ UNCHANGED <<api_key, a_resume_text, a_jd_text, response,
                   raw_text_response, generate_calls>>
    /\ UNCHANGED nonAnalyzeVars

\* model.generate_content(...), the candidates check and response.text; what
\* they raise is wrapped in GeminiError by the except clause
GenerateContent ==
    /\ analyze_pc = "Generate"
    /\ generate_calls' = generate_calls + 1
    /\ \/ \E kind \in {"raises", "no_candidates", "text_raises"} :
            /\ response' = [kind |-> kind]
            /\ analyze_result' = Raise("GeminiError")
            /\ analyze_pc' = "Exit"
            /\ UNCHANGED raw_text_response
       \/ \E text \in ResponseTexts :
            /\ response' = [kind |-> "text"]
            /\ raw_text_response' = text
            /\ analyze_pc' = "Parse"
            /\ UNCHANGED analyze_result
    /\ UNCHANGED <<api_key, a_resume_text, a_jd_text>>
    /\ UNCHANGED nonAnalyzeVars

\* the five re.search calls, the range check and the return
ParseText ==
    /\ analyze_pc = "Parse"
    /\ analyze_result' = ParseOutcome(raw_text_response)
    /\ analyze_pc' = "Exit"
    /\ UNCHANGED <<api_key, a_resume_text, a_jd_text, response,
                   raw_text_response, generate_calls>>
    /\ UNCHANGED nonAnalyzeVars

(***************************************************************************)
(* ocr_utils.py: extract_text_from_file, _perform_pdf_ocr,                 *)
(* _perform_image_ocr.                                                     *)
(***************************************************************************)
FileExts == {".pdf", ".PDF", ".png", ".JPG", ".txt", ""}

\* str.lower() of an extension
LowerExt(ext) ==
    CASE ext = ".PDF" -> ".pdf"
      [] ext = ".JPG" -> ".jpg"
      [] OTHER -> ext

ImageExts == {".png", ".jpg", ".jpeg", ".tiff", ".tif", ".bmp", ".gif"}

\* a number, written
NumberToken(k) == <<"1", "2", "3", "4", "5">>[k]

\* "\n--- Page {page_num + 1}/{num_pages} ---\n"
PageHeader(k, n) ==
    <<" ", "--- Page ", NumberToken(k), "/", NumberToken(n), " ---", " ">>

\* "\n--- TESSERACT ERROR ON PAGE {page_num + 1} ---"
TesseractErrorMarker(k) ==
    <<" ", "--- TESSERACT ERROR ON PAGE ", NumberToken(k), " ---">>

\* "\n--- ERROR PROCESSING PAGE {page_num + 1} ---"
ErrorMarker(k) == <<" ", "--- ERROR PROCESSING PAGE ", NumberToken(k), " ---">>

\* what rendering and recognising a page gives: the text of the page, or an
\* exception; without the executable image_to_string raises
\* TesseractNotFoundError, which is no TesseractError
PageOutcomes(installed) ==
    {[kind |-> "Exception"]} \cup
    (IF installed
     THEN {[kind |-> "TesseractError"]} \cup
          {[kind |-> "text", text |-> t] : t \in Texts}
     ELSE {[kind |-> "TesseractNotFoundError"]})

\* as PageContent, with the header written for a page without text too
PageContentNoBlankCheck(how, k, n) ==
    CASE how.kind = "text" -> PageHeader(k, n) \o how.text
      [] how.kind = "TesseractError" -> TesseractErrorMarker(k)
      [] OTHER -> ErrorMarker(k)

\* page_text_content of page k of n
PageContent(how, k, n) ==
    CASE how.kind = "text" ->
            IF Strip(how.text) # <<>> THEN PageHeader(k, n) \o how.text
            ELSE <<>>
      [] how.kind = "TesseractError" -> TesseractErrorMarker(k)
      [] OTHER -> ErrorMarker(k)

\* "".join(texts)
RECURSIVE Join(_)
Join(texts) == IF texts = <<>> THEN <<>> ELSE Head(texts) \o Join(Tail(texts))

OcrRaise(e, msg) == [kind |-> "raise", exc |-> e, msg |-> msg]

OcrReturn(text) == [kind |-> "return", text |-> text]

\* as ExtractDispatch, without the os.path.exists check
ExtractDispatchNoExistsCheck(exists, ext) ==
    IF LowerExt(ext) = ".pdf" THEN "pdf"
    ELSE IF LowerExt(ext) \in ImageExts THEN "image"
    ELSE "unsupported"

\* extract_text_from_file: the existence check, then the extension
ExtractDispatch(exists, ext) ==
    IF ~exists THEN "FileNotFoundError"
    ELSE IF LowerExt(ext) = ".pdf" THEN "pdf"
    ELSE IF LowerExt(ext) \in ImageExts THEN "image"
    ELSE "unsupported"

OcrStart ==
    /\ ocr_pc = "Start"
    /\ num_pages = 0
    /\ page_num = 0
    /\ all_page_texts = <<>>
    /\ page_log = <<>>
    /\ ocr_result = NothingPending

\* the function is called on any path, the file being there or not
OcrInit ==
    /\ file_exists \in BOOLEAN
    /\ file_ext \in FileExts
    /\ tesseract_installed \in BOOLEAN
    /\ OcrStart

\* no call of the function
OcrIdle ==
    /\ file_exists = FALSE
    /\ file_ext = ""
    /\ tesseract_installed = FALSE
    /\ ocr_pc = "Exit"
    /\ num_pages = 0
    /\ page_num = 0
    /\ all_page_texts = <<>>
    /\ page_log = <<>>
    /\ ocr_result = NothingPending

\* extract_text_from_file up to the call of the PDF or the image function
ExtractTextFromFile ==
    /\ ocr_pc = "Start"
    /\ LET to == ExtractDispatch(file_exists, file_ext) IN
       CASE to = "FileNotFoundError" ->
               /\ ocr_result' = OcrRaise("FileNotFoundError", "not found")
               /\ ocr_pc' = "Exit"
         [] to = "unsupported" ->
               /\ ocr_result' = OcrRaise("OCRError", "unsupported file type")
               /\ ocr_pc' = "Exit"
         [] to = "pdf" -> ocr_pc' = "OpenPdf" /\ UNCHANGED ocr_result
         [] to = "image" -> ocr_pc' = "ImageOcr" /\ UNCHANGED ocr_result
    /\ UNCHANGED <<file_exists, file_ext, tesseract_installed, num_pages,
                   page_num, all_page_texts, page_log>>
    /\ UNCHANGED nonOcrVars

\* fitz.open(pdf_path) and len(doc); the outer except clauses turn what
\* fitz.open raises into OCRError
OpenPdf ==
    /\ ocr_pc = "OpenPdf"
    /\ IF ~file_exists
       THEN /\ ocr_result' = OcrRaise("OCRError", "PDF file not found")
            /\ ocr_pc' = "Exit"
            /\ UNCHANGED num_pages
       ELSE \/ \E msg \in {"PDF file not found", "MuPDF error"} :
                 /\ ocr_result' = OcrRaise("OCRError", msg)
                 /\ ocr_pc' = "Exit"
                 /\ UNCHANGED num_pages
            \/ \E n \in 0..MaxPages :
                 /\ num_pages' = n
                 /\ IF n = 0
                    THEN ocr_result' = OcrReturn(<<>>) /\ ocr_pc' = "Exit"
                    ELSE UNCHANGED ocr_result /\ ocr_pc' = "OcrPage"
    /\ UNCHANGED <<file_exists, file_ext, tesseract_installed, page_num,
                   all_page_texts, page_log>>
    /\ UNCHANGED nonOcrVars

\* one pass of the page loop
OcrPage ==
    /\ ocr_pc = "OcrPage"
    /\ \E how \in PageOutcomes(tesseract_installed) :
          LET page_text_content == PageContent(how, page_num + 1, num_pages) IN
          /\ all_page_texts' = IF page_text_content # <<>>
                               THEN Append(all_page_texts, page_text_content)
                               ELSE all_page_texts
          /\ page_log' = Append(page_log, how)
    /\ page_num' = page_num + 1
    /\ ocr_pc' = IF page_num + 1 < num_pages THEN "OcrPage" ELSE "JoinPages"
    /\ UNCHANGED <<file_exists, file_ext, tesseract_installed, num_pages,
                   ocr_result>>
    /\ UNCHANGED nonOcrVars

\* final_text = "".join(all_page_texts).strip(), returned
JoinPages ==
    /\ ocr_pc = "JoinPages"
    /\ ocr_result' = OcrReturn(Strip(Join(all_page_texts)))
    /\ ocr_pc' = "Exit"
    /\ UNCHANGED <<file_exists, file_ext, tesseract_installed, num_pages,
                   page_num, all_page_texts, page_log>>
    /\ UNCHANGED nonOcrVars

\* _perform_image_ocr: the text of the image, or OCRError
ImageOcr ==
    /\ ocr_pc = "ImageOcr"
    /\ IF ~file_exists
       THEN ocr_result' = OcrRaise("OCRError", "Image file not found")
       ELSE \/ \E msg \in {"Image file not found", "Cannot identify image",
                           "Unexpected error"} :
                 ocr_result' = OcrRaise("OCRError", msg)
            \/ /\ ~tesseract_installed
               /\ ocr_result' = OcrRaise("OCRError", "Tesseract not found")
            \/ /\ tesseract_installed
               /\ \/ ocr_result' = OcrRaise("OCRError", "Tesseract error")
                  \/ \E t \in Texts : ocr_result' = OcrReturn(t)
    /\ ocr_pc' = "Exit"
    /\ UNCHANGED <<file_exists, file_ext, tesseract_installed, num_pages,
                   page_num, all_page_texts, page_log>>
    /\ UNCHANGED nonOcrVars

(***************************************************************************)
(* prefect_flow.py: sanitize_artifact_key.  Here a string is a sequence of *)
(* characters.                                                             *)
(***************************************************************************)
KeyChars == {"A", "9", "-", "/", "_"}

\* "https://h" before the rest or not, then a run of a's and a few characters
InputStrings ==
    { [http |-> h, rest |-> [i \in 1..n |-> "a"] \o tail] :
        h \in BOOLEAN, n \in 0..MaxRun,
        tail \in UNION {[1..m -> KeyChars] : m \in 0..MaxTailLen} }

\* str.lower(), character by character
LowerChar(c) == IF c = "A" THEN "a" ELSE c

LowerString(str) == [i \in 1..Len(str) |-> LowerChar(str[i])]

LowercaseLetters ==
    {"a", "b", "c", "d", "e", "f", "g", "h", "i", "j", "k", "l", "m", "n", "o",
     "p", "q", "r", "s", "t", "u", "v", "w", "x", "y", "z"}

\* [a-z0-9-]
KeyAllowed(c) == c \in LowercaseLetters \/ IsDigit(c) \/ c = "-"

\* urlparse(...).path of "https://h" + rest: what follows the netloc
RECURSIVE UrlPath(_)
UrlPath(rest) ==
    IF rest = <<>> \/ Head(rest) = "/" THEN rest ELSE UrlPath(Tail(rest))

\* [p for p in path.split("/") if p]
RECURSIVE PathParts(_, _)
PathParts(path, part) ==
    IF path = <<>> THEN (IF part = <<>> THEN <<>> ELSE <<part>>)
    ELSE IF Head(path) = "/"
         THEN (IF part = <<>> THEN <<>> ELSE <<part>>) \o PathParts(Tail(path), <<>>)
         ELSE PathParts(Tail(path), Append(part, Head(path)))

LinkedinUrl == <<"l", "i", "n", "k", "e", "d", "i", "n", "-", "u", "r", "l">>

SanitizedKey ==
    <<"s", "a", "n", "i", "t", "i", "z", "e", "d", "-", "k", "e", "y">>

\* the segment taken from a URL
UrlSegment(rest) ==
    LET path_parts == PathParts(UrlPath(rest), <<>>)
        n == Len(path_parts)
    IN  IF n = 0 THEN LinkedinUrl
        ELSE IF n > 1 THEN path_parts[n - 1] \o <<"-">> \o path_parts[n]
        ELSE path_parts[n]

\* re.sub(r"[^a-z0-9-]+", "-", str); inRun: the character before was replaced
RECURSIVE ReSub(_, _)
ReSub(str, inRun) ==
    IF str = <<>> THEN <<>>
    ELSE IF KeyAllowed(Head(str)) THEN <<Head(str)>> \o ReSub(Tail(str), FALSE)
    ELSE IF inRun THEN ReSub(Tail(str), TRUE)
    ELSE <<"-">> \o ReSub(Tail(str), TRUE)

\* str.strip("-")
RECURSIVE StripHyphens(_)
StripHyphens(str) ==
    IF str = <<>> THEN str
    ELSE IF Head(str) = "-" THEN StripHyphens(Tail(str))
    ELSE IF str[Len(str)] = "-" THEN StripHyphens(SubSeq(str, 1, Len(str) - 1))
    ELSE str

\* [:50]
MaxKeyLen == 50

Truncate(str) == SubSeq(str, 1, IF Len(str) < MaxKeyLen THEN Len(str) ELSE MaxKeyLen)

\* sanitize_artifact_key of a string; parsed: urlparse did not raise
SanitizeArtifactKey(inp, parsed) ==
    LET lowered == LowerString(inp.rest)
        segment == IF inp.http
                   THEN (IF parsed THEN UrlSegment(lowered) ELSE LinkedinUrl)
                   ELSE lowered
        sanitized == Truncate(StripHyphens(ReSub(segment, FALSE)))
    IN  IF sanitized # <<>> THEN sanitized ELSE SanitizedKey

\* the function is called on any of the strings
KeyInit ==
    /\ input_string \in InputStrings
    /\ key_pc = "Start"
    /\ artifact_key = <<>>

\* no call of the function
KeyIdle ==
    /\ input_string = [http |-> FALSE, rest |-> <<>>]
    /\ key_pc = "Done"
    /\ artifact_key = <<>>

\* the call
Sanitize ==
    /\ key_pc = "Start"
    /\ \E parsed \in BOOLEAN :
          /\ (~input_string.http => parsed)
          /\ artifact_key' = SanitizeArtifactKey(input_string, parsed)
    /\ key_pc' = "Done"
    /\ UNCHANGED input_string
    /\ UNCHANGED nonKeyVars

Next ==
    \/ ClassifyJDSource(1)
    \/ ExtractResume(1)
    \/ ExtractJD(1)
    \/ ValidateTexts(1)
    \/ Analyze(1)

Init ==
    FlowInit /\ AppInit /\ ScrapeIdle /\ AnalyzeIdle /\ OcrIdle /\ KeyIdle

Spec == Init /\ [][Next]_vars

NextPair ==
    \E r \in Runs :
        \/ ClassifyJDSource(r)
        \/ ExtractResume(r)
        \/ ExtractJD(r)
        \/ ValidateTexts(r)
        \/ Analyze(r)

SpecPair == Init /\ [][NextPair]_vars

InitApp ==
    FlowIdle /\ AppInit /\ ScrapeIdle /\ AnalyzeIdle /\ OcrIdle /\ KeyIdle

NextApp ==
    \/ Tick
    \/ \E q \in Requests :
          \/ AnalyzeButton(q)
          \/ SaveResume(q)
          \/ SaveJD(q)
          \/ RunFlow(q)
          \/ Finally(q)

SpecApp == InitApp /\ [][NextApp]_vars

InitScrape ==
    FlowIdle /\ AppInit /\ ScrapeInit /\ AnalyzeIdle /\ OcrIdle /\ KeyIdle

NextScrape ==
    \/ ValidateUrl
    \/ StartDriver
    \/ Navigate
    \/ WaitContent
    \/ InnerHtml
    \/ Extract
    \/ Handler
    \/ ScrapeFinally

SpecScrape == InitScrape /\ [][NextScrape]_vars

InitAnalyze ==
    FlowIdle /\ AppInit /\ ScrapeIdle /\ AnalyzeInit /\ OcrIdle /\ KeyIdle

NextAnalyze ==
    \/ ConfigureGemini
    \/ CheckInputs
    \/ GenerateContent
    \/ ParseText

SpecAnalyze == InitAnalyze /\ [][NextAnalyze]_vars

InitOcr ==
    FlowIdle /\ AppInit /\ ScrapeIdle /\ AnalyzeIdle /\ OcrInit /\ KeyIdle

NextOcr ==
    \/ ExtractTextFromFile
    \/ OpenPdf
    \/ OcrPage
    \/ JoinPages
    \/ ImageOcr

SpecOcr == InitOcr /\ [][NextOcr]_vars

InitKey ==
    FlowIdle /\ AppInit /\ ScrapeIdle /\ AnalyzeIdle /\ OcrIdle /\ KeyInit

NextKey == Sanitize

SpecKey == InitKey /\ [][NextKey]_vars

(***************************************************************************)
(* Properties of the flow.                                                 *)
(***************************************************************************)
Range(q) == {q[i] : i \in 1..Len(q)}

IsFailure(o) == DOMAIN o = {"error"}

Completed(r, step) == task_state[r][step] = "Completed"

Failed(r, step) == task_state[r][step] = "Failed"

\* the JD input, trimmed, is an http:// or https:// string
HttpString(s) ==
    \E i \in 1..Len(s) :
        /\ s[i] \in {"http://", "https://"}
        /\ \A j \in 1..(i - 1) : s[j] = " "

ClassifyFailed(r) == pc[r] # "Start" /\ ~HttpString(jd_input) /\ ~jd_exists

\* ValidateTexts has run and found a text empty
ValidateFailed(r) ==
    /\ Completed(r, "resume") /\ Completed(r, "jd")
    /\ pc[r] # "ValidateTexts"
    /\ (IsBlank(resume_text[r]) \/ IsBlank(jd_text[r]))

\* C1: a failure of any step (classification, resume extraction, JD
\* extraction/fetch, validation, analysis) ends the run with a Failure outcome
\* and no later step is invoked: after a resume-extraction failure no JD task and
\* no analyze_task has run, after a JD failure analyze_task has not run.
C1_FailureEndsRun ==
    \A r \in Runs :
        /\ ( ClassifyFailed(r) \/ ValidateFailed(r)
             \/ (\E s \in Steps : Failed(r, s)) )
              => pc[r] = "Done" /\ IsFailure(outcome[r])
        /\ ClassifyFailed(r) => calls[r] = <<>>
        /\ Failed(r, "resume") =>
              /\ calls[r] = <<"ocr_task(resume_path)">>
              /\ attempts[r]["jd"] = <<>> /\ attempts[r]["analyze"] = <<>>
        /\ Failed(r, "jd") =>
              /\ "analyze_task" \notin Range(calls[r])
              /\ attempts[r]["analyze"] = <<>>
        /\ ValidateFailed(r) => attempts[r]["analyze"] = <<>>

C1_Witness ==
    /\ pc[1] = "Done"
    /\ Failed(1, "jd")
    /\ Completed(1, "resume")
    /\ outcome[1] = Failure(MsgJDFailed)

\* an extraction step of the run returned empty or whitespace-only text
EmptyExtraction(r) ==
    \/ Completed(r, "resume") /\ IsBlank(resume_text[r])
    \/ Completed(r, "jd") /\ IsBlank(jd_text[r])

AnalyzeOnlyOnText(r) ==
    attempts[r]["analyze"] # <<>> =>
        /\ resume_text[r] # None /\ Strip(resume_text[r]) # <<>>
        /\ jd_text[r] # None /\ Strip(jd_text[r]) # <<>>

\* C2 as stated: analyze_task runs only on two non-empty texts, and a run in
\* which an extraction step returned empty text ends in the 'text is empty'
\* Failure.
C2_EmptyTextMessage ==
    \A r \in Runs :
        /\ AnalyzeOnlyOnText(r)
        /\ (pc[r] = "Done" /\ EmptyExtraction(r)) =>
              outcome[r] \in {Failure(MsgResumeEmpty), Failure(MsgJDEmpty)}

\* C2 as amended: analyze_task runs only on two non-empty texts; a run in which
\* an extraction step returned empty text ends in a Failure, with the 'text is
\* empty' message unless the JD extraction/fetch that followed an empty resume
\* text failed, and then with the JD extraction-failure message.
C2_EmptyTextFailure ==
    \A r \in Runs :
        /\ AnalyzeOnlyOnText(r)
        /\ (pc[r] = "Done" /\ EmptyExtraction(r)) =>
              IF Failed(r, "jd")
              THEN outcome[r] = Failure(MsgJDFailed)
              ELSE outcome[r] \in {Failure(MsgResumeEmpty), Failure(MsgJDEmpty)}

C2_Witness ==
    /\ pc[1] = "Done"
    /\ Completed(1, "resume") /\ ~IsBlank(resume_text[1])
    /\ Completed(1, "jd") /\ IsBlank(jd_text[1])
    /\ outcome[1] = Failure(MsgJDEmpty)

\* C3: the JD input is a URL if, trimmed, it is an http:// or https:// string,
\* otherwise it must be an existing path; if it is neither, the flow returns the
\* invalid-JD Failure with no task invoked, no attempt made and no artifact
\* created.
C3_ClassifyJDSource ==
    \A r \in Runs :
        pc[r] # "Start" =>
            /\ is_jd_url[r] = HttpString(jd_input)
            /\ IF ~HttpString(jd_input) /\ ~jd_exists
               THEN /\ outcome[r] = Failure(MsgInvalidJD)
                    /\ calls[r] = <<>>
                    /\ \A s \in Steps :
                          task_state[r][s] = "NotRun" /\ attempts[r][s] = <<>>
                    /\ artifact_calls[r] = 0
                    /\ resume_text[r] = None
               ELSE outcome[r] # Failure(MsgInvalidJD)

C3_Witness ==
    /\ outcome[1] = Failure(MsgInvalidJD)
    /\ pc[1] = "Done"
    /\ StartsWith(jd_input, <<"http">>)

\* C4: when both extractions complete with empty-after-trimming text, the
\* Failure cites the resume.
C4_ResumeEmptyFirst ==
    \A r \in Runs :
        ( /\ pc[r] = "Done"
          /\ Completed(r, "resume") /\ Completed(r, "jd")
          /\ Strip(resume_text[r]) = <<>> /\ Strip(jd_text[r]) = <<>> )
        => outcome[r] = Failure(MsgResumeEmpty)

C4_Witness ==
    /\ pc[1] = "Done"
    /\ Completed(1, "resume") /\ Completed(1, "jd")
    /\ Strip(resume_text[1]) = <<>> /\ Strip(jd_text[1]) = <<>>
    /\ outcome[1] = Failure(MsgResumeEmpty)

\* C5: each step is attempted at most twice, the second attempt only after the
\* first raised; the step fails only when both attempts raised; the flow invokes
\* no task twice; a run is over after at most six attempts or can take a step.
C5_AtMostTwoAttempts ==
    \A r \in Runs :
        /\ \A s \in Steps :
              /\ Len(attempts[r][s]) <= 2
              /\ \A i \in 1..(Len(attempts[r][s]) - 1) : attempts[r][s][i] = "raised"
              /\ Failed(r, s) <=> attempts[r][s] = <<"raised", "raised">>
              /\ Completed(r, s) <=>
                    (attempts[r][s] # <<>>
                       /\ attempts[r][s][Len(attempts[r][s])] = "returned")
        /\ \A i, j \in 1..Len(calls[r]) : calls[r][i] = calls[r][j] => i = j
        /\ Len(calls[r]) <= 3
        /\ pc[r] = "Done" \/ (r = 1 => ENABLED Next)

C5_Witness ==
    /\ pc[1] = "Done"
    /\ attempts[1]["resume"] = <<"raised", "returned">>
    /\ attempts[1]["jd"] = <<"raised", "returned">>
    /\ attempts[1]["analyze"] = <<"raised", "raised">>
    /\ outcome[1] = Failure(MsgAnalysisFailed)

\* C6: two runs on the same inputs that get the same results from the OCR
\* engine, the scraper and the LLM, and differ only in which create_artifact
\* calls fail, return the same outcome after the same task invocations and the
\* same attempts.
C6_ArtifactsDoNotInfluence ==
    (pc[1] = "Done" /\ pc[2] = "Done") =>
        /\ outcome[1] = outcome[2]
        /\ calls[1] = calls[2]
        /\ attempts[1] = attempts[2]
        /\ task_state[1] = task_state[2]

C6_Witness ==
    /\ pc[1] = "Done" /\ pc[2] = "Done"
    /\ artifact_calls[1] = 7 /\ artifact_failures[1] = 0
    /\ artifact_calls[2] = 6 /\ artifact_failures[2] = 6
    /\ attempts[2]["analyze"] = <<"raised", "returned">>
    /\ "percentage" \in DOMAIN outcome[2]

(***************************************************************************)
(* Properties of the button handler.                                       *)
(***************************************************************************)
\* C7: every temporary file created for a request by save_uploaded_file is
\* absent once the handling of the request is over, on every exit path (an
\* os.remove that itself raised set aside).
C7_TempFilesRemoved ==
    \A q \in Requests :
        (app[q].pc = "Done" /\ ~remove_failed[q]) =>
            \A p \in created[q] : p \notin DOMAIN fs \/ fs[p] # q

\* C8: the temporary paths of two requests in flight are distinct, and no
\* request overwrites, reads or deletes a file of another running request.
C8_RequestsIsolated ==
    \A q \in Requests :
        /\ foreign[q] = {}
        /\ \A o \in Requests \ {q} :
              (Running(q) /\ Running(o)) => created[q] \cap created[o] = {}

(***************************************************************************)
(* Properties of the scraper.                                              *)
(***************************************************************************)
\* C9: a call opens at most one browser session, and a session that was opened
\* has had driver.quit called on it by the time the call returns or raises.
C9_SessionReleased ==
    /\ sessions_opened <= 1
    /\ quit_calls <= sessions_opened
    /\ (scrape_pc = "Exit" /\ sessions_opened = 1) => quit_calls = 1

C9_Witness ==
    /\ scrape_pc = "Exit"
    /\ sessions_opened = 1 /\ quit_calls = 1
    /\ scrape_result = Raise("ScrapingError")
    /\ attempt = 2

\* the path is that of a jobs/search URL
JobsSearchPath(path) ==
    /\ Len(path) >= 4
    /\ path[1] = "/" /\ path[2] = "jobs" /\ path[3] = "/" /\ path[4] = "search"

\* the query carries a job identifier
HasJobId(query) ==
    \E i \in 1..Len(query) : query[i].key = "currentJobId" /\ query[i].value # ""

\* C10: a call on a jobs/search URL without a job identifier in its query
\* raises ValueError, no browser session having been opened.
C10_SearchUrlWithoutId ==
    (scrape_pc # "Start" /\ JobsSearchPath(url.path) /\ ~HasJobId(url.query)) =>
        /\ scrape_pc = "Exit"
        /\ scrape_result = Raise("ValueError")
        /\ sessions_opened = 0
        /\ driver = NoDriver
        /\ navigated = <<>>

C10_Witness ==
    /\ scrape_pc = "Exit"
    /\ url.netloc = <<"www.", "linkedin.com">>
    /\ url.path = <<"/", "jobs", "/", "search", "/">>
    /\ url.query = <<[key |-> "keywords", value |-> "42"]>>
    /\ driver_path_ok
    /\ scrape_result = Raise("ValueError")

\* the host is linkedin.com or one of its subdomains
LinkedInHost(netloc) ==
    netloc \in { <<"linkedin.com">>, <<"www.", "linkedin.com">> }

\* the path is that of a jobs/view URL
JobsViewPath(path) == StartsWith(path, <<"/", "jobs", "/", "view", "/">>)

\* C11: the browser is navigated only to URLs of the linkedin.com domain: a
\* call on a URL of another host raises ValueError with no session opened, a
\* jobs/search URL with a job identifier is navigated as
\* https://www.linkedin.com/jobs/view/<id>/, and a jobs/view URL is navigated
\* as given.
C11_NavigatesLinkedInOnly ==
    /\ \A i \in 1..Len(navigated) : LinkedInHost(navigated[i].netloc)
    /\ (scrape_pc # "Start" /\ ~LinkedInHost(url.netloc)) =>
          /\ scrape_pc = "Exit"
          /\ scrape_result = Raise("ValueError")
          /\ sessions_opened = 0
    /\ \A i \in 1..Len(navigated) :
          /\ (JobsSearchPath(url.path) /\ HasJobId(url.query)) =>
                navigated[i] = ViewUrl(QueryValues(url.query, "currentJobId")[1])
          /\ (~JobsSearchPath(url.path) /\ JobsViewPath(url.path)) =>
                navigated[i] = url

(***************************************************************************)
(* Properties of the analyzer.                                             *)
(***************************************************************************)
\* the call has returned a result
Returned == analyze_pc = "Exit" /\ analyze_result.kind = "return"

IsMarker(tok) == \E k \in 1..Len(Markers) : Fold(tok) = Markers[k]

\* the markers of a text, in the order they are written
MarkersOf(text) ==
    LET written == SelectSeq(text, IsMarker)
    IN  [i \in 1..Len(written) |-> Fold(written[i])]

\* the positions of the digits that come right after PERCENTAGE_MATCH:,
\* whitespace apart
NumberStarts(text) ==
    { k \in 1..Len(text) :
        /\ IsDigit(text[k])
        /\ \E i \in 1..(k - 1) :
              /\ Fold(text[i]) = "PERCENTAGE_MATCH:"
              /\ \A m \in (i + 1)..(k - 1) : text[m] = " " }

\* the digits written from position k on, `most` of them at most
DigitRun(text, k, most) ==
    LET n == CHOOSE n \in 1..most :
                 /\ k + n - 1 <= Len(text)
                 /\ \A m \in k..(k + n - 1) : IsDigit(text[m])
                 /\ (n = most \/ k + n > Len(text) \/ ~IsDigit(text[k + n]))
    IN  SubSeq(text, k, k + n - 1)

\* the one to three digits immediately following the marker, <<>> if none
DigitsAfterMarker(text) ==
    IF NumberStarts(text) = {} THEN <<>>
    ELSE LET k == CHOOSE k \in NumberStarts(text) :
                      \A o \in NumberStarts(text) : k <= o
         IN  DigitRun(text, k, 3)

\* C12: the percentage of a returned result is an integer of 0..100: it is
\* the integer written by the one to three digits that immediately follow
\* PERCENTAGE_MATCH: when that integer is at most 100, and 0 when the marker or
\* the digits are missing or the integer is larger than 100.
C12_PercentageInRange ==
    Returned =>
        LET percentage == analyze_result.value.percentage
            ds == DigitsAfterMarker(raw_text_response)
        IN  /\ percentage \in 0..100
            /\ (ds # <<>> /\ ToInt(ds) <= 100) => percentage = ToInt(ds)
            /\ (ds = <<>> \/ ToInt(ds) > 100) => percentage = 0

C12_Witness ==
    /\ Returned
    /\ raw_text_response =
          ResponseText(<<1, 2, 3, 4, 5>>, FALSE, <<" ", "1", "1", "0">>)
    /\ analyze_result.value.percentage = 0

\* the trimmed text between the marker and the next marker (or the end)
TextAfter(text, marker) ==
    LET i == CHOOSE i \in 1..Len(text) : Fold(text[i]) = marker
        later == { j \in (i + 1)..Len(text) : IsMarker(text[j]) }
        j == IF later = {} THEN Len(text) + 1
             ELSE CHOOSE j \in later : \A o \in later : j <= o
    IN  Strip(SubSeq(text, i + 1, j - 1))

\* C13: a returned result for a response that holds RESUME_SUMMARY:,
\* REQUIREMENTS_MET:, REQUIREMENTS_MISSING: and PERCENTAGE_MATCH: in this order
\* and no JD_SUMMARY: has the placeholder as its JD summary, and every other
\* field is what follows its own marker, not a placeholder.
C13_OnlyJdSummaryPlaceholder ==
    ( /\ Returned
      /\ MarkersOf(raw_text_response) =
            << "RESUME_SUMMARY:", "REQUIREMENTS_MET:", "REQUIREMENTS_MISSING:",
               "PERCENTAGE_MATCH:" >> ) =>
        LET result == analyze_result.value
            ds == DigitsAfterMarker(raw_text_response)
        IN  /\ result.jd_summary = JdPlaceholder
            /\ result.resume_summary # ResumePlaceholder
            /\ result.resume_summary =
                  TextAfter(raw_text_response, "RESUME_SUMMARY:")
            /\ result.matches =
                  TextAfter(raw_text_response, "REQUIREMENTS_MET:")
            /\ result.misses =
                  TextAfter(raw_text_response, "REQUIREMENTS_MISSING:")
            /\ (ds # <<>> /\ ToInt(ds) <= 100) => result.percentage = ToInt(ds)

\* the number written after PERCENTAGE_MATCH:, all its digits, <<>> if none
NumberAfterMarker(text) ==
    IF NumberStarts(text) = {} THEN <<>>
    ELSE LET k == CHOOSE k \in NumberStarts(text) :
                      \A o \in NumberStarts(text) : k <= o
         IN  DigitRun(text, k, Len(text))

\* the text fields of a result are the trimmed texts between the markers
TextFieldsBetweenMarkers(result, text) ==
    /\ DOMAIN result =
          {"resume_summary", "jd_summary", "matches", "misses", "percentage"}
    /\ result.resume_summary = TextAfter(text, "RESUME_SUMMARY:")
    /\ result.jd_summary = TextAfter(text, "JD_SUMMARY:")
    /\ result.matches = TextAfter(text, "REQUIREMENTS_MET:")
    /\ result.misses = TextAfter(text, "REQUIREMENTS_MISSING:")
    /\ result.resume_summary # ResumePlaceholder
    /\ result.jd_summary # JdPlaceholder
    /\ result.matches # MetPlaceholder
    /\ result.misses # MissingPlaceholder

\* C14 as stated: a returned result for a response that holds the five markers
\* in the order of the prompt has exactly the five fields, each text field the
\* trimmed text between its marker and the next, and the percentage the number
\* written after the last marker.
C14_FiveMarkersLiteral ==
    (Returned /\ MarkersOf(raw_text_response) = Markers) =>
        /\ TextFieldsBetweenMarkers(analyze_result.value, raw_text_response)
        /\ NumberAfterMarker(raw_text_response) # <<>> =>
              analyze_result.value.percentage =
                 ToInt(NumberAfterMarker(raw_text_response))

\* C14, amended: the same, the percentage being the integer written by the
\* first one to three digits after the last marker when that integer is at
\* most 100, and 0 when it is larger or no digit follows the marker.
C14_FiveMarkersParsed ==
    (Returned /\ MarkersOf(raw_text_response) = Markers) =>
        LET ds == DigitsAfterMarker(raw_text_response) IN
        /\ TextFieldsBetweenMarkers(analyze_result.value, raw_text_response)
        /\ analyze_result.value.percentage =
              IF ds # <<>> /\ ToInt(ds) <= 100 THEN ToInt(ds) ELSE 0

C14_Witness ==
    /\ Returned
    /\ raw_text_response = ResponseText(<<1, 2, 3, 4, 5>>, TRUE, <<" ", "1", "0">>)
    /\ analyze_result.value =
          [resume_summary |-> <<"r", " ", "r">>, jd_summary |-> <<"j">>,
           matches |-> <<"m">>, misses |-> <<"x">>, percentage |-> 10]

\* the field is its placeholder or a trimmed piece of the text
TextOrPlaceholder(field, placeholder, text) ==
    \/ field = placeholder
    \/ \E i \in 1..(Len(text) + 1), j \in 0..Len(text) :
          field = Strip(SubSeq(text, i, j))

\* C15: whenever the LLM gave a response text, whatever markers it holds and
\* in whatever order, the call returns a result with the five fields, each
\* text field a text or its placeholder and the percentage in 0..100; the call
\* raises only when the LLM call failed (no client, an exception, no
\* candidate, no text) or a text given to it is empty.
C15_ParsingIsTotal ==
    analyze_pc = "Exit" =>
        /\ response.kind = "text" =>
              /\ analyze_result.kind = "return"
              /\ analyze_result.raw = raw_text_response
              /\ LET result == analyze_result.value IN
                 /\ DOMAIN result = {"resume_summary", "jd_summary", "matches",
                                     "misses", "percentage"}
                 /\ TextOrPlaceholder(result.resume_summary, ResumePlaceholder,
                                      raw_text_response)
                 /\ TextOrPlaceholder(result.jd_summary, JdPlaceholder,
                                      raw_text_response)
                 /\ TextOrPlaceholder(result.matches, MetPlaceholder,
                                      raw_text_response)
                 /\ TextOrPlaceholder(result.misses, MissingPlaceholder,
                                      raw_text_response)
                 /\ result.percentage \in 0..100
        /\ analyze_result.kind = "raise" =>
              \/ response.kind \in {"raises", "no_candidates", "text_raises"}
              \/ /\ generate_calls = 0
                 /\ analyze_result.exc = "ValueError"
                 /\ IsBlank(a_resume_text) \/ IsBlank(a_jd_text)
              \/ /\ generate_calls = 0
                 /\ analyze_result.exc = "GeminiError"
                 /\ response = NoResponse

C15_Witness ==
    /\ Returned
    /\ MarkersOf(raw_text_response) =
          << "PERCENTAGE_MATCH:", "REQUIREMENTS_MET:", "RESUME_SUMMARY:" >>
    /\ analyze_result.value =
          [resume_summary |-> ResumePlaceholder, jd_summary |-> JdPlaceholder,
           matches |-> MetPlaceholder, misses |-> MissingPlaceholder,
           percentage |-> 11]

\* C16: a call with an empty or whitespace-only text raises ValueError,
\* whether the API key is set or not, and model.generate_content is not
\* called.
C16_EmptyTextValueError ==
    (analyze_pc = "Exit" /\ (IsBlank(a_resume_text) \/ IsBlank(a_jd_text))) =>
        /\ analyze_result = Raise("ValueError")
        /\ generate_calls = 0

(***************************************************************************)
(* Properties of the text extraction.                                      *)
(***************************************************************************)
\* C17: a call on a path where no file is raises FileNotFoundError, whatever
\* the extension: neither the unsupported-type OCRError nor an OCRError of the
\* PDF or image function is raised, and neither function is entered.
C17_MissingFileNotFound ==
    (ocr_pc # "Start" /\ ~file_exists) =>
        /\ ocr_pc = "Exit"
        /\ ocr_result.kind = "raise"
        /\ ocr_result.exc = "FileNotFoundError"
        /\ page_log = <<>>

C17_Witness ==
    /\ ocr_pc = "Exit"
    /\ ~file_exists
    /\ file_ext = ".txt"
    /\ ocr_result.kind = "raise" /\ ocr_result.exc = "FileNotFoundError"

\* the positions where sub is written in text
Occurrences(text, sub) ==
    { i \in 1..(Len(text) - Len(sub) + 1) :
        SubSeq(text, i, i + Len(sub) - 1) = sub }

\* where the output holds an error marker of page k
ErrorMarkerAt(text, k) ==
    Occurrences(text, Tail(TesseractErrorMarker(k)))
       \cup Occurrences(text, Tail(ErrorMarker(k)))

\* where the output holds the header of page k of n
HeaderAt(text, k, n) == Occurrences(text, Tail(PageHeader(k, n)))

\* recognition failed on page k
PageFailed(k) == page_log[k].kind # "text"

\* page k has text
PageHasText(k) ==
    page_log[k].kind = "text" /\ Strip(page_log[k].text) # <<>>

\* C18: once its pages are being processed a PDF call does not raise: it
\* returns after the last page, and the output holds, in page order, one error
\* marker for each page that failed and the header and the text of each other
\* page that has text; a page without text has neither in the output.
C18_PageFailureDoesNotAbort ==
    /\ Len(page_log) = page_num
    /\ page_log # <<>> => ocr_result.kind # "raise"
    /\ (ocr_pc = "Exit" /\ page_log # <<>>) =>
          /\ ocr_result.kind = "return"
          /\ page_num = num_pages
          /\ LET out == ocr_result.text
                 n == num_pages
                 At(k) == ErrorMarkerAt(out, k) \cup HeaderAt(out, k, n)
             IN  /\ \A k \in 1..n :
                       /\ PageFailed(k) =>
                             /\ Cardinality(ErrorMarkerAt(out, k)) = 1
                             /\ HeaderAt(out, k, n) = {}
                       /\ PageHasText(k) =>
                             /\ ErrorMarkerAt(out, k) = {}
                             /\ Cardinality(HeaderAt(out, k, n)) = 1
                             /\ \A i \in HeaderAt(out, k, n) :
                                   LET t == RStrip(page_log[k].text) IN
                                   SubSeq(out, i + 6, i + 5 + Len(t)) = t
                       /\ (~PageFailed(k) /\ ~PageHasText(k)) => At(k) = {}
                 /\ \A k, l \in 1..n :
                       k < l => \A i \in At(k), j \in At(l) : i < j

C18_Witness ==
    /\ ocr_pc = "Exit"
    /\ page_log = << [kind |-> "TesseractError"],
                     [kind |-> "text", text |-> <<"a">>] >>
    /\ ocr_result =
          OcrReturn(Tail(TesseractErrorMarker(1)) \o PageHeader(2, 2) \o <<"a">>)

(***************************************************************************)
(* More properties of the flow.                                            *)
(***************************************************************************)
FlowMessages ==
    { MsgInvalidJD, MsgResumeFailed, MsgJDFailed, MsgResumeEmpty, MsgJDEmpty,
      MsgAnalysisFailed }

\* C19: a run returns one value, when it is done and not before, whatever its
\* tasks raised: a dict with the 'error' string alone, or a dict with
\* resume_summary, jd_summary, matches, misses and percentage and no 'error'.
C19_FailureOrSuccess ==
    /\ pc[1] # "Done" => outcome[1] = NoOutcome
    /\ pc[1] = "Done" =>
          \/ /\ DOMAIN outcome[1] = {"error"}
             /\ outcome[1].error \in FlowMessages
          \/ /\ DOMAIN outcome[1] =
                   {"resume_summary", "jd_summary", "matches", "misses",
                    "percentage"}
             /\ outcome[1] \in AnalysisDicts
    /\ \A step \in Steps :
          Failed(1, step) => pc[1] = "Done" /\ DOMAIN outcome[1] = {"error"}

C19_Witness ==
    /\ pc[1] = "Done"
    /\ attempts[1]["analyze"] = <<"raised", "returned">>
    /\ outcome[1] \in AnalysisDicts
    /\ outcome[1].percentage = 85

\* what the run has called is the start of seq
IsPrefix(called, seq) ==
    Len(called) <= Len(seq) /\ called = SubSeq(seq, 1, Len(called))

\* C20: the tasks of a run are called in the order resume extraction, JD
\* extraction or fetch, analysis, none before the JD source is classified and
\* each only when the one before has returned; the texts are examined only
\* once the JD task has returned, so a run whose resume text is empty still
\* runs the JD task and, when that task fails, returns the JD failure.
C20_StepsInOrder ==
    /\ IsPrefix(calls[1], << "ocr_task(resume_path)", JdTask(is_jd_url[1]),
                             "analyze_task" >>)
    /\ pc[1] = "Start" => calls[1] = <<>>
    /\ attempts[1]["jd"] # <<>> => Completed(1, "resume")
    /\ attempts[1]["analyze"] # <<>> =>
          /\ Completed(1, "jd")
          /\ ~IsBlank(resume_text[1]) /\ ~IsBlank(jd_text[1])
    /\ outcome[1] \in {Failure(MsgResumeEmpty), Failure(MsgJDEmpty)} =>
          Completed(1, "jd")
    /\ (pc[1] = "Done" /\ Completed(1, "resume") /\ IsBlank(resume_text[1])) =>
          /\ calls[1] = <<"ocr_task(resume_path)", JdTask(is_jd_url[1])>>
          /\ Failed(1, "jd") => outcome[1] = Failure(MsgJDFailed)
          /\ Completed(1, "jd") => outcome[1] = Failure(MsgResumeEmpty)

C20_Witness ==
    /\ pc[1] = "Done"
    /\ Completed(1, "resume") /\ IsBlank(resume_text[1])
    /\ is_jd_url[1]
    /\ calls[1] = <<"ocr_task(resume_path)", "scrape_task(jd_input)">>
    /\ attempts[1]["jd"] = <<"raised", "raised">>
    /\ outcome[1] = Failure(MsgJDFailed)

(***************************************************************************)
(* More properties of the text extraction.                                 *)
(***************************************************************************)
\* C21: without the Tesseract executable a call on a PDF that has a page,
\* each page being rendered and handed to the engine, raises the OCRError of
\* the missing executable, as a call on an image does, and returns no text.
C21_PdfEngineUnavailable ==
    ( /\ ocr_pc = "Exit"
      /\ ~tesseract_installed
      /\ file_exists
      /\ LowerExt(file_ext) = ".pdf"
      /\ num_pages >= 1
      /\ \A k \in 1..Len(page_log) :
            page_log[k].kind = "TesseractNotFoundError" ) =>
        /\ ocr_result.kind = "raise"
        /\ ocr_result.exc = "OCRError"
        /\ ocr_result.msg = "Tesseract not found"

(***************************************************************************)
(* More properties of the Analyze button handler.                          *)
(***************************************************************************)
\* C22: the resume copy and the JD copy of a request are at different paths,
\* whatever the names of the two uploaded files and the second each is saved
\* in, so the flow is called with resume_path # jd_input.
C22_CopiesAtDifferentPaths ==
    \A q \in Requests :
        ( /\ app[q].jd_flag = "file"
          /\ app[q].resume_path_temporary # NoPath
          /\ app[q].jd_path_temporary # NoPath ) =>
            app[q].resume_path_temporary # app[q].jd_path_temporary

(***************************************************************************)
(* Properties of the artifact key.                                         *)
(***************************************************************************)
\* C23: the key returned for a string is not empty, has 50 characters at
\* most, all of them of a-z, 0-9 and the hyphen, and neither starts nor ends
\* with a hyphen.
C23_KeyWellFormed ==
    key_pc = "Done" =>
        /\ artifact_key # <<>>
        /\ Len(artifact_key) <= 50
        /\ \A i \in 1..Len(artifact_key) : KeyAllowed(artifact_key[i])
        /\ artifact_key[1] # "-"
        /\ artifact_key[Len(artifact_key)] # "-"

====
